---- MODULE Spec2Model ----
(***************************************************************************)
(* A model of exa-cli (src/src/main.rs): one process that parses its       *)
(* command line, builds one JSON request body, issues at most one HTTP     *)
(* call and prints the result.                                             *)
(*                                                                         *)
(* Text is modelled as a sequence of one-character strings, so that        *)
(* trimming, JSON parsing and JSON printing are computed character by      *)
(* character.  A JSON value is a record [t |-> tag, v |-> payload].        *)
(***************************************************************************)
EXTENDS Integers, Sequences, FiniteSets, TLC

(***************************************************************************)
(* Bounds of the model.                                                    *)
(***************************************************************************)
\* longest --query / --url / --instructions / --task-id value
MaxLen == 2
\* longest --urls item list
MaxUrls == 3
\* longest --ids item list
MaxIds == 1
\* longest --tools value
MaxToolsLen == 3

(***************************************************************************)
(* Characters and strings.                                                 *)
(***************************************************************************)
\* char::is_whitespace, restricted to the characters the model uses
Whitespace == {" ", "\t", "\n", "\r"}

RECURSIVE SeqsUpTo(_, _)
\* all sequences over S of length at most n
SeqsUpTo(S, n) ==
  IF n = 0 THEN {<<>>}
  ELSE LET shorter == SeqsUpTo(S, n - 1)
       IN shorter \cup {Append(s, c) : s \in {x \in shorter : Len(x) = n - 1}, c \in S}

RECURSIVE ToStr(_)
\* the text as a single string
ToStr(cs) == IF cs = <<>> THEN "" ELSE Head(cs) \o ToStr(Tail(cs))

RECURSIVE TrimStartMatches(_, _)
TrimStartMatches(cs, set) ==
  IF cs # <<>> /\ Head(cs) \in set THEN TrimStartMatches(Tail(cs), set) ELSE cs

RECURSIVE TrimEndMatches(_, _)
TrimEndMatches(cs, set) ==
  IF cs # <<>> /\ cs[Len(cs)] \in set
  THEN TrimEndMatches(SubSeq(cs, 1, Len(cs) - 1), set)
  ELSE cs

\* str::trim_matches: strips the characters of set from both ends
TrimMatches(cs, set) == TrimEndMatches(TrimStartMatches(cs, set), set)

\* str::trim: strips whitespace from both ends
Trim(cs) == TrimMatches(cs, Whitespace)

\* Option<T>
None == [some |-> FALSE, v |-> <<>>]
Some(x) == [some |-> TRUE, v |-> x]

\* F applied to the value of x, which is computed once
Bind(x, F(_)) == CHOOSE r \in {F(v) : v \in {x}} : TRUE

(***************************************************************************)
(* serde_json::Value and serde_json::Map.                                  *)
(***************************************************************************)
\* every value carries every field, so that any two values can be compared
NullV == [t |-> "null", b |-> FALSE, s |-> <<>>, a |-> <<>>, o |-> <<>>]
BoolV(b) == [NullV EXCEPT !.t = "bool", !.b = b]
NumV(digits) == [NullV EXCEPT !.t = "number", !.s = digits]
StrV(cs) == [NullV EXCEPT !.t = "string", !.s = cs]
ArrV(vs) == [NullV EXCEPT !.t = "array", !.a = vs]
ObjV(m) == [NullV EXCEPT !.t = "object", !.o = m]

\* Map::new()
EmptyMap == <<>>

\* Map::insert: the key is added, or its value replaced
Insert(m, key, val) ==
  [k \in (DOMAIN m) \cup {key} |-> IF k = key THEN val ELSE m[k]]

\* the keys of the model's bodies and payloads
IDS == <<"i", "d", "s">>
INSTRUCTIONS == <<"i", "n", "s", "t", "r", "u", "c", "t", "i", "o", "n", "s">>
NUM_RESULTS == <<"n", "u", "m", "R", "e", "s", "u", "l", "t", "s">>
QUERY == <<"q", "u", "e", "r", "y">>
RAW == <<"r", "a", "w">>
STREAM == <<"s", "t", "r", "e", "a", "m">>
URL == <<"u", "r", "l">>
URLS == <<"u", "r", "l", "s">>

\* those keys in the order a sorted map iterates them
KeyOrder == <<IDS, INSTRUCTIONS, NUM_RESULTS, QUERY, RAW, STREAM, URL, URLS>>

(***************************************************************************)
(* serde_json::to_string: compact JSON text of a value.                    *)
(***************************************************************************)
RECURSIVE EscapeChars(_)
EscapeChars(cs) ==
  IF cs = <<>> THEN <<>>
  ELSE LET c == Head(cs)
           e == IF c \in {"\"", "\\"} THEN <<"\\", c>>
                ELSE IF c = "\n" THEN <<"\\", "n">>
                ELSE IF c = "\t" THEN <<"\\", "t">>
                ELSE IF c = "\r" THEN <<"\\", "r">>
                ELSE <<c>>
       IN e \o EscapeChars(Tail(cs))

Quote(cs) == <<"\"">> \o EscapeChars(cs) \o <<"\"">>

RECURSIVE Serialize(_)
RECURSIVE SerializeItems(_, _)
RECURSIVE SerializeMembers(_, _, _)

SerializeItems(vs, i) ==
  IF i > Len(vs) THEN <<>>
  ELSE (IF i > 1 THEN <<",">> ELSE <<>>) \o Serialize(vs[i]) \o SerializeItems(vs, i + 1)

\* first tells whether no member has been written yet
SerializeMembers(m, i, first) ==
  IF i > Len(KeyOrder) THEN <<>>
  ELSE IF KeyOrder[i] \notin DOMAIN m THEN SerializeMembers(m, i + 1, first)
  ELSE (IF first THEN <<>> ELSE <<",">>)
       \o Quote(KeyOrder[i]) \o <<":">> \o Serialize(m[KeyOrder[i]])
       \o SerializeMembers(m, i + 1, FALSE)

Serialize(val) ==
  CASE val.t = "null" -> <<"n", "u", "l", "l">>
    [] val.t = "bool" -> IF val.b THEN <<"t", "r", "u", "e">>
                         ELSE <<"f", "a", "l", "s", "e">>
    [] val.t = "number" -> val.s
    [] val.t = "string" -> Quote(val.s)
    [] val.t = "array" -> <<"[">> \o SerializeItems(val.a, 1) \o <<"]">>
    [] val.t = "object" -> <<"{">> \o SerializeMembers(val.o, 1, TRUE) \o <<"}">>

(***************************************************************************)
(* serde_json::to_string_pretty: the same text, indented by two spaces.    *)
(***************************************************************************)
RECURSIVE Indent(_)
Indent(n) == IF n = 0 THEN <<>> ELSE <<" ", " ">> \o Indent(n - 1)

RECURSIVE SerializePretty(_, _)
RECURSIVE PrettyItems(_, _, _)
RECURSIVE PrettyMembers(_, _, _, _)

PrettyItems(vs, i, depth) ==
  IF i > Len(vs) THEN <<>>
  ELSE (IF i > 1 THEN <<",">> ELSE <<>>) \o <<"\n">> \o Indent(depth)
       \o SerializePretty(vs[i], depth) \o PrettyItems(vs, i + 1, depth)

PrettyMembers(m, i, first, depth) ==
  IF i > Len(KeyOrder) THEN <<>>
  ELSE IF KeyOrder[i] \notin DOMAIN m THEN PrettyMembers(m, i + 1, first, depth)
  ELSE (IF first THEN <<>> ELSE <<",">>) \o <<"\n">> \o Indent(depth)
       \o Quote(KeyOrder[i]) \o <<":", " ">> \o SerializePretty(m[KeyOrder[i]], depth)
       \o PrettyMembers(m, i + 1, FALSE, depth)

SerializePretty(val, depth) ==
  CASE val.t = "array" /\ val.a # <<>> ->
         <<"[">> \o PrettyItems(val.a, 1, depth + 1) \o <<"\n">> \o Indent(depth) \o <<"]">>
    [] val.t = "object" /\ DOMAIN val.o # {} ->
         <<"{">> \o PrettyMembers(val.o, 1, TRUE, depth + 1) \o <<"\n">> \o Indent(depth)
         \o <<"}">>
    [] OTHER -> Serialize(val)

(***************************************************************************)
(* serde_json::from_str::<Value>: the value a JSON text denotes, if any.   *)
(* A parse step returns [ok, val, next]: whether it succeeded, the value,  *)
(* and the index of the first character it did not consume.                *)
(***************************************************************************)
ParseFail == [ok |-> FALSE, val |-> NullV, next |-> 0]
ParseOk(val, next) == [ok |-> TRUE, val |-> val, next |-> next]

Digits == {"0", "1", "2", "3", "4", "5", "6", "7", "8", "9"}

RECURSIVE SkipWs(_, _)
SkipWs(cs, i) ==
  IF i <= Len(cs) /\ cs[i] \in Whitespace THEN SkipWs(cs, i + 1) ELSE i

\* whether the characters of word stand at index i of cs
Literal(cs, i, word) ==
  /\ i + Len(word) - 1 <= Len(cs)
  /\ SubSeq(cs, i, i + Len(word) - 1) = word

RECURSIVE ParseStringBody(_, _, _)
\* the characters after an opening quote, up to the closing one
ParseStringBody(cs, i, acc) ==
  IF i > Len(cs) THEN ParseFail
  ELSE IF cs[i] = "\"" THEN ParseOk(acc, i + 1)
  ELSE IF cs[i] \in {"\n", "\t", "\r"} THEN ParseFail
  ELSE IF cs[i] = "\\" THEN
    IF i + 1 > Len(cs) THEN ParseFail
    ELSE IF cs[i + 1] \in {"\"", "\\", "/"}
      THEN ParseStringBody(cs, i + 2, Append(acc, cs[i + 1]))
    ELSE IF cs[i + 1] = "n" THEN ParseStringBody(cs, i + 2, Append(acc, "\n"))
    ELSE IF cs[i + 1] = "t" THEN ParseStringBody(cs, i + 2, Append(acc, "\t"))
    ELSE IF cs[i + 1] = "r" THEN ParseStringBody(cs, i + 2, Append(acc, "\r"))
    ELSE ParseFail
  ELSE ParseStringBody(cs, i + 1, Append(acc, cs[i]))

RECURSIVE DigitsEnd(_, _)
DigitsEnd(cs, i) == IF i <= Len(cs) /\ cs[i] \in Digits THEN DigitsEnd(cs, i + 1) ELSE i

\* an unsigned integer; a leading zero may not be followed by a digit
ParseNumber(cs, i) ==
  LET end == DigitsEnd(cs, i)
  IN IF cs[i] = "0" /\ end > i + 1 THEN ParseFail
     ELSE ParseOk(NumV(SubSeq(cs, i, end - 1)), end)

RECURSIVE ParseValue(_, _)
RECURSIVE ParseItems(_, _, _)
RECURSIVE ParseMembers(_, _, _)
RECURSIVE ParseMember(_, _, _)

\* the items after "[" or after a comma; acc holds the items read so far
ParseItems(cs, i, acc) ==
  Bind(ParseValue(cs, i), LAMBDA item :
    IF ~item.ok THEN ParseFail
    ELSE Bind(SkipWs(cs, item.next), LAMBDA j :
      IF j > Len(cs) THEN ParseFail
      ELSE IF cs[j] = "," THEN ParseItems(cs, j + 1, Append(acc, item.val))
      ELSE IF cs[j] = "]" THEN ParseOk(ArrV(Append(acc, item.val)), j + 1)
      ELSE ParseFail))

\* the value after a member's key, and what follows it
ParseMember(cs, key, acc) ==
  Bind(SkipWs(cs, key.next), LAMBDA c :
    IF c > Len(cs) \/ cs[c] # ":" THEN ParseFail
    ELSE Bind(ParseValue(cs, c + 1), LAMBDA member :
      IF ~member.ok THEN ParseFail
      ELSE Bind(SkipWs(cs, member.next), LAMBDA j :
        IF j > Len(cs) THEN ParseFail
        ELSE IF cs[j] = "," THEN ParseMembers(cs, j + 1, Insert(acc, key.val, member.val))
        ELSE IF cs[j] = "}" THEN ParseOk(ObjV(Insert(acc, key.val, member.val)), j + 1)
        ELSE ParseFail)))

\* the members after "{" or after a comma; a repeated key keeps its last value
ParseMembers(cs, i, acc) ==
  Bind(SkipWs(cs, i), LAMBDA k :
    IF k > Len(cs) \/ cs[k] # "\"" THEN ParseFail
    ELSE Bind(ParseStringBody(cs, k + 1, <<>>), LAMBDA key :
      IF ~key.ok THEN ParseFail ELSE ParseMember(cs, key, acc)))

ParseValue(cs, i) ==
  Bind(SkipWs(cs, i), LAMBDA j :
    IF j > Len(cs) THEN ParseFail
    ELSE IF Literal(cs, j, <<"n", "u", "l", "l">>) THEN ParseOk(NullV, j + 4)
    ELSE IF Literal(cs, j, <<"t", "r", "u", "e">>) THEN ParseOk(BoolV(TRUE), j + 4)
    ELSE IF Literal(cs, j, <<"f", "a", "l", "s", "e">>) THEN ParseOk(BoolV(FALSE), j + 5)
    ELSE IF cs[j] = "\"" THEN
      Bind(ParseStringBody(cs, j + 1, <<>>), LAMBDA str :
        IF str.ok THEN ParseOk(StrV(str.val), str.next) ELSE ParseFail)
    ELSE IF cs[j] \in Digits THEN ParseNumber(cs, j)
    ELSE IF cs[j] = "[" THEN
      Bind(SkipWs(cs, j + 1), LAMBDA k :
        IF k <= Len(cs) /\ cs[k] = "]" THEN ParseOk(ArrV(<<>>), k + 1)
        ELSE ParseItems(cs, j + 1, <<>>))
    ELSE IF cs[j] = "{" THEN
      Bind(SkipWs(cs, j + 1), LAMBDA k :
        IF k <= Len(cs) /\ cs[k] = "}" THEN ParseOk(ObjV(EmptyMap), k + 1)
        ELSE ParseMembers(cs, j + 1, EmptyMap))
    ELSE ParseFail)

\* Result<Value>: the whole text must be one value, whitespace aside
FromStr(text) ==
  Bind(text, LAMBDA cs :
    Bind(ParseValue(cs, 1), LAMBDA r :
      IF r.ok /\ SkipWs(cs, r.next) > Len(cs) THEN [ok |-> TRUE, val |-> r.val]
      ELSE [ok |-> FALSE, val |-> NullV]))

(***************************************************************************)
(* Constants of the program.                                               *)
(***************************************************************************)
DEFAULT_API_BASE ==
  <<"h", "t", "t", "p", "s", ":", "/", "/", "a", "p", "i", ".", "e", "x", "a", ".", "a", "i">>

MCP_BASE == "https://mcp.exa.ai/mcp"

MCP_TOOLS ==
  << "web_search_exa",
     "web_search_advanced_exa",
     "get_code_context_exa",
     "deep_search_exa",
     "crawling_exa",
     "company_research_exa",
     "people_search_exa",
     "deep_researcher_start",
     "deep_researcher_check" >>

(***************************************************************************)
(* Result<T>: a value, or the message anyhow displays for the error.       *)
(***************************************************************************)
Ok(x) == [ok |-> TRUE, val |-> x, err |-> ""]
Err(default, msg) == [ok |-> FALSE, val |-> default, err |-> msg]

(***************************************************************************)
(* BodyArgs, and the files a --body-file path may name.  A file is         *)
(* Some(text) when it can be read and None when it cannot.                 *)
(***************************************************************************)
BODY_PATH == <<"b", ".", "j", "s", "o", "n">>
Unreadable == None

\* load_body's result: the mapping, and whether the file was read
LoadOk(map, read) == [ok |-> TRUE, map |-> map, err |-> "", read |-> read]
LoadErr(msg, read) == [ok |-> FALSE, map |-> EmptyMap, err |-> msg, read |-> read]

\* the match of lines 296-304: the text to parse, if any; two sources fall
\* to the last arm
ReadRaw(a, file) ==
  IF a.body.some /\ ~a.body_file.some THEN Ok(Some(a.body.v))
  ELSE IF ~a.body.some /\ a.body_file.some THEN
    IF file.some THEN Ok(Some(file.v))
    ELSE Err(None, "read body file " \o ToStr(a.body_file.v))
  ELSE Ok(None)

\* whether fs::read_to_string is called
ReadsFile(a) == ~a.body.some /\ a.body_file.some

\* lines 305-313: the text as a mapping
ParseBody(raw, read) ==
  IF ~raw.ok THEN LoadErr(raw.err, read)
  ELSE IF ~raw.val.some THEN LoadOk(EmptyMap, read)
  ELSE Bind(FromStr(raw.val.v), LAMBDA value :
         IF ~value.ok THEN LoadErr("parse body json", read)
         ELSE IF value.val.t = "object" THEN LoadOk(value.val.o, read)
         ELSE IF value.val.t = "null" THEN LoadOk(EmptyMap, read)
         ELSE LoadErr("--body must be a JSON object", read))

\* load_body without its first check
LoadBodyNoExclusion(a, file) == ParseBody(ReadRaw(a, file), ReadsFile(a))

\* a is the BodyArgs, file the state of the file a.body_file names
load_body(a, file) ==
  IF a.body.some /\ a.body_file.some
  THEN LoadErr("use only one of --body or --body-file", FALSE)
  ELSE ParseBody(ReadRaw(a, file), ReadsFile(a))

(***************************************************************************)
(* normalize_list, ensure_string_field, ensure_any_field.                  *)
(***************************************************************************)
RECURSIVE TrimmedNonEmpty(_)
\* the items trimmed, the empty ones dropped, each as a JSON string
TrimmedNonEmpty(items) ==
  IF items = <<>> THEN <<>>
  ELSE LET item == Trim(Head(items))
       IN (IF item = <<>> THEN <<>> ELSE <<StrV(item)>>) \o TrimmedNonEmpty(Tail(items))

\* normalize_list returning the list even when nothing is left of it
NormalizeListKeepsEmpty(items) == Some(TrimmedNonEmpty(items))

normalize_list(items) ==
  LET values == TrimmedNonEmpty(items)
  IN IF values = <<>> THEN None ELSE Some(values)

\* ensure_string_field without the trim
EnsureStringFieldNoTrim(body, key) ==
  IF key \in DOMAIN body /\ body[key].t = "string" /\ body[key].s # <<>> THEN Ok(TRUE)
  ELSE Err(FALSE, "missing " \o ToStr(key))

ensure_string_field(body, key) ==
  LET got == IF key \in DOMAIN body THEN Some(body[key]) ELSE None
      str == IF got.some /\ got.v.t = "string" THEN Some(got.v.s) ELSE None
      trimmed == IF str.some THEN Some(Trim(str.v)) ELSE None
      value == IF trimmed.some /\ trimmed.v # <<>> THEN trimmed ELSE None
  IN IF ~value.some THEN Err(FALSE, "missing " \o ToStr(key))
     ELSE IF value.v = <<>> THEN Err(FALSE, "missing " \o ToStr(key))
     ELSE Ok(TRUE)

RECURSIVE Join(_, _)
\* [&str]::join
Join(strs, sep) ==
  IF strs = <<>> THEN ""
  ELSE IF Len(strs) = 1 THEN strs[1]
  ELSE strs[1] \o sep \o Join(Tail(strs), sep)

\* keys is a sequence of keys
ensure_any_field(body, keys) ==
  IF \E i \in 1..Len(keys) : keys[i] \in DOMAIN body THEN Ok(TRUE)
  ELSE Err(FALSE, "missing one of: " \o Join([i \in 1..Len(keys) |-> ToStr(keys[i])], ", "))

(***************************************************************************)
(* handle_mcp: the lines printed, and the error if any.                    *)
(***************************************************************************)
McpOk(lines) == [ok |-> TRUE, out |-> lines, err |-> ""]
McpErr(msg) == [ok |-> FALSE, out |-> <<>>, err |-> msg]

\* handle_mcp without the arm of "all"
HandleMcpNoAll(cmd, tools) ==
  IF cmd = "tools" THEN McpOk(MCP_TOOLS)
  ELSE IF ~tools.some THEN McpOk(<<MCP_BASE>>)
  ELSE LET trimmed == TrimMatches(Trim(tools.v), {","})
       IN IF trimmed = <<>> THEN McpErr("tools list is empty")
          ELSE McpOk(<<MCP_BASE \o "?tools=" \o ToStr(trimmed)>>)

\* cmd is "tools" or "url"; tools is the --tools value of mcp url
handle_mcp(cmd, tools) ==
  IF cmd = "tools" THEN McpOk(MCP_TOOLS)
  ELSE IF ~tools.some THEN McpOk(<<MCP_BASE>>)
  ELSE IF tools.v = <<"a", "l", "l">>
    THEN McpOk(<<MCP_BASE \o "?tools=" \o Join(MCP_TOOLS, ",")>>)
  ELSE LET trimmed == TrimMatches(Trim(tools.v), {","})
       IN IF trimmed = <<>> THEN McpErr("tools list is empty")
          ELSE McpOk(<<MCP_BASE \o "?tools=" \o ToStr(trimmed)>>)

(***************************************************************************)
(* parse_response.  A response is [status, text]; text is None when the    *)
(* body cannot be read.                                                    *)
(***************************************************************************)
\* StatusCode::is_success
is_success(status) == 200 <= status /\ status < 300

\* StatusCode's Display: the code and its canonical reason
StatusDisplay(status) ==
  CASE status = 200 -> "200 OK"
    [] status = 299 -> "299 <unknown status code>"
    [] status = 300 -> "300 Multiple Choices"
    [] status = 404 -> "404 Not Found"
    [] status = 500 -> "500 Internal Server Error"

\* parse_response failing on a body that is no JSON
ParseResponseStrict(resp) ==
  IF ~resp.text.some THEN Err(NullV, "exa body")
  ELSE Bind(FromStr(resp.text.v), LAMBDA parsed :
         IF ~parsed.ok THEN Err(NullV, "exa json")
         ELSE IF ~is_success(resp.status)
         THEN Err(NullV, "exa api failed status=" \o StatusDisplay(resp.status)
                         \o " body=" \o ToStr(Serialize(parsed.val)))
         ELSE Ok(parsed.val))

parse_response(resp) ==
  IF ~resp.text.some THEN Err(NullV, "exa body")
  ELSE Bind(FromStr(resp.text.v), LAMBDA parsed :
         LET payload == IF parsed.ok THEN parsed.val
                        ELSE ObjV(Insert(EmptyMap, RAW, StrV(resp.text.v)))
         IN IF ~is_success(resp.status)
            THEN Err(NullV, "exa api failed status=" \o StatusDisplay(resp.status)
                            \o " body=" \o ToStr(Serialize(payload)))
            ELSE Ok(payload))

(***************************************************************************)
(* The inputs the model draws.                                             *)
(***************************************************************************)
Options(S) == {None} \cup {Some(x) : x \in S}

\* values of --query, --url, --instructions and --task-id
FlagStrings == SeqsUpTo({"a", " "}, MaxLen)

\* items of --urls and of --ids, as clap splits them at commas
UrlItems == {<<"a">>, <<" ">>, <<" ", "b", " ">>}
IdItems == {<<"i">>, <<" ">>}

\* values of --tools
ToolStrings == SeqsUpTo({"a", "l", "A", ",", " "}, MaxToolsLen)

Commands ==
  {"search", "contents", "find-similar", "answer", "context",
   "research start", "research check", "mcp url", "mcp tools"}

\* the keys a sample body of the subcommand may hold
BodyKeys(cmd) ==
  CASE cmd \in {"search", "context", "answer"} -> {QUERY, STREAM, NUM_RESULTS}
    [] cmd = "find-similar" -> {URL, STREAM, NUM_RESULTS}
    [] cmd = "research start" -> {INSTRUCTIONS, STREAM, NUM_RESULTS}
    [] cmd = "contents" -> {URLS, IDS, NUM_RESULTS}

\* the values a sample body may give a key
BodyValues(key) ==
  CASE key \in {QUERY, URL, INSTRUCTIONS} ->
         {StrV(<<>>), StrV(<<" ">>), StrV(<<"b", " ">>), BoolV(TRUE)}
    [] key \in {URLS, IDS} -> {ArrV(<<StrV(<<"c">>)>>), StrV(<<"b", " ">>)}
    [] key = STREAM -> {BoolV(TRUE), StrV(<<"b", " ">>), ObjV(EmptyMap)}
    [] key = NUM_RESULTS -> {NumV(<<"5">>)}

SampleMaps(cmd) ==
  UNION {{m \in [D -> UNION {BodyValues(k) : k \in D}] : \A k \in D : m[k] \in BodyValues(k)}
         : D \in SUBSET BodyKeys(cmd)}

\* JSON texts that are no object, and texts that are no JSON
NonObjectTexts ==
  {Serialize(NullV), <<" ", "n", "u", "l", "l", "\n">>, Serialize(ArrV(<<>>)),
   Serialize(StrV(<<"b">>)), Serialize(NumV(<<"5">>)), Serialize(BoolV(TRUE))}
MalformedTexts == {<<>>, <<"{">>, <<"{", "}", "x">>, <<"{", "\"", "u", "r", "l", "\"", "}">>}

BodyTexts(cmd) ==
  {Serialize(ObjV(m)) : m \in SampleMaps(cmd)} \cup NonObjectTexts \cup MalformedTexts

\* the contents a body file may have
FileTexts(cmd) ==
  {Serialize(ObjV(m)) : m \in {x \in SampleMaps(cmd) : Cardinality(DOMAIN x) = 1}}
    \cup {Serialize(NullV), Serialize(ArrV(<<>>)), <<"{">>}

\* --body and --body-file, with the state of the file named
BodySources(cmd) ==
  {[body |-> None, body_file |-> None, file |-> Unreadable]}
    \cup {[body |-> Some(t), body_file |-> None, file |-> Unreadable] : t \in BodyTexts(cmd)}
    \cup {[body |-> None, body_file |-> Some(BODY_PATH), file |-> f]
          : f \in Options(FileTexts(cmd))}
    \cup {[body |-> Some(t), body_file |-> Some(BODY_PATH), file |-> f]
          : t \in {Serialize(ObjV(EmptyMap)), <<"{">>},
            f \in {Unreadable, Some(Serialize(ObjV(EmptyMap)))}}

\* what a server may answer
Statuses == {200, 299, 300, 404, 500}
ResponseValues ==
  {ObjV(Insert(EmptyMap, RAW, StrV(<<"o", "k">>))), ArrV(<<NumV(<<"5">>)>>),
   StrV(<<"a", "\"">>)}
InvalidResponseTexts == {<<>>, <<"o", "o", "p", "s">>, <<"{", "\"", "a">>}
ResponseTexts ==
  {Serialize(v) : v \in ResponseValues}
    \cup {SerializePretty(v, 0) : v \in ResponseValues}
    \cup InvalidResponseTexts

(***************************************************************************)
(* The state of one run of the program.                                    *)
(***************************************************************************)
VARIABLES
  pc,        \* where run() stands: "parsed", "dispatch", "awaiting", "responded",
             \* "payload", "exited"
  command,   \* cli.command
  api_key,   \* the resolved API key
  api_base,  \* the resolved base address, its trailing slashes trimmed
  args,      \* the subcommand's arguments, while its match arm runs
  fs,        \* the state of the file --body-file names
  reads,     \* how often the body file has been read
  loaded,    \* what load_body returned, while the match arm runs
  inflight,  \* the request on the wire, while its response is awaited
  response,  \* the response received
  calls,     \* how many HTTP calls have been issued
  payload,   \* the payload to print
  stdout,    \* the lines printed to standard output
  stderr,    \* the lines printed to standard error
  exit       \* "running", "success" (exit code 0) or "failure" (exit code 1)

vars ==
  <<pc, command, api_key, api_base, args, fs, reads, loaded, inflight, response,
    calls, payload, stdout, stderr, exit>>

NoArgs ==
  [query |-> None, url |-> None, instructions |-> None, task_id |-> None, tools |-> None,
   urls |-> <<>>, ids |-> <<>>, body |-> None, body_file |-> None]

NotLoaded == [ok |-> FALSE, map |-> EmptyMap, err |-> "", read |-> FALSE]
NoBody == [some |-> FALSE, v |-> NullV]
NoRequest == [method |-> "", url |-> "", headers |-> {}, body |-> NoBody]
NoResponse == [status |-> 0, text |-> None]

Init ==
  /\ pc = "parsed"
  /\ command \in Commands
  /\ api_key = None
  /\ api_base = <<>>
  /\ args = NoArgs
  /\ fs = Unreadable
  /\ reads = 0
  /\ loaded = NotLoaded
  /\ inflight = NoRequest
  /\ response = NoResponse
  /\ calls = 0
  /\ payload = NullV
  /\ stdout = <<>>
  /\ stderr = <<>>
  /\ exit = "running"

(***************************************************************************)
(* main's handling of run()'s result, lines 155-160: an error is printed   *)
(* to standard error and the process exits with code 1.                    *)
(***************************************************************************)
\* the error printed with println! instead of eprintln!
FailToStdout(msg) ==
  /\ stdout' = Append(stdout, "error: " \o msg)
  /\ exit' = "failure"
  /\ pc' = "exited"
  /\ UNCHANGED <<stderr, inflight, calls>>

Fail(msg) ==
  /\ stderr' = Append(stderr, "error: " \o msg)
  /\ exit' = "failure"
  /\ pc' = "exited"
  /\ UNCHANGED <<stdout, inflight, calls>>

(***************************************************************************)
(* exa_post and exa_get up to send(): the request goes on the wire.        *)
(***************************************************************************)
\* exa_post sending its request a second time
ExaPostRetrying(path, body) ==
  /\ inflight' =
       [method |-> "POST",
        url |-> ToStr(api_base) \o path,
        headers |-> {<<"accept", "application/json">>,
                     <<"content-type", "application/json">>,
                     <<"x-api-key", ToStr(api_key.v)>>},
        body |-> Some(body)]
  /\ calls' = calls + 2
  /\ pc' = "awaiting"
  /\ UNCHANGED <<stdout, stderr, exit>>

exa_post(path, body) ==
  /\ inflight' =
       [method |-> "POST",
        url |-> ToStr(api_base) \o path,
        headers |-> {<<"accept", "application/json">>,
                     <<"content-type", "application/json">>,
                     <<"x-api-key", ToStr(api_key.v)>>},
        body |-> Some(body)]
  /\ calls' = calls + 1
  /\ pc' = "awaiting"
  /\ UNCHANGED <<stdout, stderr, exit>>

exa_get(path) ==
  /\ inflight' =
       [method |-> "GET",
        url |-> ToStr(api_base) \o path,
        headers |-> {<<"accept", "application/json">>, <<"x-api-key", ToStr(api_key.v)>>},
        body |-> NoBody]
  /\ calls' = calls + 1
  /\ pc' = "awaiting"
  /\ UNCHANGED <<stdout, stderr, exit>>

(***************************************************************************)
(* run(), lines 165-167: the mcp subcommands need no key and no network.   *)
(***************************************************************************)
HandleMcp ==
  /\ pc = "parsed"
  /\ command \in {"mcp url", "mcp tools"}
  /\ \E tools \in (IF command = "mcp url" THEN Options(ToolStrings) ELSE {None}) :
       LET r == handle_mcp(IF command = "mcp url" THEN "url" ELSE "tools", tools)
       IN /\ args' = [NoArgs EXCEPT !.tools = tools]
          /\ stdout' = stdout \o r.out
          /\ IF r.ok
             THEN /\ exit' = "success"
                  /\ stderr' = stderr
             ELSE /\ exit' = "failure"
                  /\ stderr' = Append(stderr, "error: " \o r.err)
  /\ pc' = "exited"
  /\ UNCHANGED <<command, api_key, api_base, fs, reads, loaded, inflight, response, calls,
                 payload>>

(***************************************************************************)
(* run(), lines 169-179: the API key, the base address and the client.     *)
(* The length of the timeout is not modelled: a call may fail at any time  *)
(* (SendFails).                                                            *)
(***************************************************************************)
OrElse(first, second) == IF first.some THEN first ELSE second

ResolveKey(flag, env) == OrElse(flag, env)

ResolveBase(flag, env) ==
  LET base == OrElse(flag, env)
  IN TrimEndMatches(IF base.some THEN base.v ELSE DEFAULT_API_BASE, {"/"})

Setup ==
  /\ pc = "parsed"
  /\ command \notin {"mcp url", "mcp tools"}
  /\ \E key_flag \in Options({<<"f">>}), key_env \in Options({<<"e">>}),
        base_flag \in Options({<<"h", "/", "/">>}), base_env \in Options({<<"h">>}),
        built \in BOOLEAN :
       LET key == ResolveKey(key_flag, key_env)
       IN IF ~key.some
          THEN /\ Fail("EXA_API_KEY missing")
               /\ UNCHANGED <<api_key, api_base>>
          ELSE /\ api_key' = key
               /\ api_base' = ResolveBase(base_flag, base_env)
               /\ IF built
                  THEN /\ pc' = "dispatch"
                       /\ UNCHANGED <<stdout, stderr, exit, inflight, calls>>
                  ELSE Fail("builder error")
  /\ UNCHANGED <<command, args, fs, reads, loaded, response, payload>>

(***************************************************************************)
(* run(), lines 181-256: the match arms, each up to the sending of its     *)
(* request.                                                                *)
(***************************************************************************)
\* what an arm records of load_body's call
Loaded(src, a, lb) ==
  /\ args' = a
  /\ fs' = src.file
  /\ reads' = reads + (IF lb.read THEN 1 ELSE 0)
  /\ loaded' = lb

\* the flag's value put into a fresh body
OverlayReplacing(body, key, flag) ==
  IF flag.some THEN Insert(EmptyMap, key, StrV(flag.v)) ELSE body

\* if let Some(x) = flag { body.insert(key, Value::String(x)) }
OverlayString(body, key, flag) ==
  IF flag.some THEN Insert(body, key, StrV(flag.v)) ELSE body

\* if let Some(xs) = normalize_list(items) { body.insert(key, Value::Array(xs)) }
OverlayList(body, key, items) ==
  Bind(normalize_list(items), LAMBDA list :
    IF list.some THEN Insert(body, key, ArrV(list.v)) ELSE body)

\* stream set only when the body has none
KeepStream(body) == IF STREAM \in DOMAIN body THEN body ELSE Insert(body, STREAM, BoolV(FALSE))

\* body.insert("stream", Value::Bool(false))
ForceStream(body) == Insert(body, STREAM, BoolV(FALSE))

\* the arms of search, find-similar, context and research start
StringArm(flag, key, path, a, src) ==
  \E lb \in {load_body(a, src.file)} :
    /\ Loaded(src, a, lb)
    /\ IF ~lb.ok THEN Fail(lb.err)
       ELSE \E body \in {OverlayString(lb.map, key, flag)} :
              \E checked \in {ensure_string_field(body, key)} :
                IF ~checked.ok THEN Fail(checked.err)
                ELSE exa_post(path, ObjV(body))

Search ==
  /\ pc = "dispatch"
  /\ command = "search"
  /\ \E src \in BodySources(command), query \in Options(FlagStrings) :
       StringArm(query, QUERY, "/search",
                 [NoArgs EXCEPT !.query = query, !.body = src.body,
                                !.body_file = src.body_file], src)
  /\ UNCHANGED <<command, api_key, api_base, response, payload>>

Contents ==
  /\ pc = "dispatch"
  /\ command = "contents"
  /\ \E src \in BodySources(command), urls \in SeqsUpTo(UrlItems, MaxUrls),
        ids \in SeqsUpTo(IdItems, MaxIds) :
       \E a \in {[NoArgs EXCEPT !.urls = urls, !.ids = ids, !.body = src.body,
                                !.body_file = src.body_file]} :
       \E lb \in {load_body(a, src.file)} :
         /\ Loaded(src, a, lb)
         /\ IF ~lb.ok THEN Fail(lb.err)
            ELSE \E body1 \in {OverlayList(lb.map, URLS, urls)} :
                 \E body2 \in {OverlayList(body1, IDS, ids)} :
                 \E checked \in {ensure_any_field(body2, <<URLS, IDS>>)} :
                   IF ~checked.ok THEN Fail(checked.err)
                   ELSE exa_post("/contents", ObjV(body2))
  /\ UNCHANGED <<command, api_key, api_base, response, payload>>

FindSimilar ==
  /\ pc = "dispatch"
  /\ command = "find-similar"
  /\ \E src \in BodySources(command), url \in Options(FlagStrings) :
       StringArm(url, URL, "/findSimilar",
                 [NoArgs EXCEPT !.url = url, !.body = src.body,
                                !.body_file = src.body_file], src)
  /\ UNCHANGED <<command, api_key, api_base, response, payload>>

Answer ==
  /\ pc = "dispatch"
  /\ command = "answer"
  /\ \E src \in BodySources(command), query \in Options(FlagStrings) :
       \E a \in {[NoArgs EXCEPT !.query = query, !.body = src.body,
                                !.body_file = src.body_file]} :
       \E lb \in {load_body(a, src.file)} :
         /\ Loaded(src, a, lb)
         /\ IF ~lb.ok THEN Fail(lb.err)
            ELSE \E body1 \in {OverlayString(lb.map, QUERY, query)} :
                 \E checked \in {ensure_string_field(body1, QUERY)} :
                   IF ~checked.ok THEN Fail(checked.err)
                   ELSE exa_post("/answer", ObjV(ForceStream(body1)))
  /\ UNCHANGED <<command, api_key, api_base, response, payload>>

Context ==
  /\ pc = "dispatch"
  /\ command = "context"
  /\ \E src \in BodySources(command), query \in Options(FlagStrings) :
       StringArm(query, QUERY, "/context",
                 [NoArgs EXCEPT !.query = query, !.body = src.body,
                                !.body_file = src.body_file], src)
  /\ UNCHANGED <<command, api_key, api_base, response, payload>>

ResearchStart ==
  /\ pc = "dispatch"
  /\ command = "research start"
  /\ \E src \in BodySources(command), instructions \in Options(FlagStrings) :
       StringArm(instructions, INSTRUCTIONS, "/research/v0/tasks",
                 [NoArgs EXCEPT !.instructions = instructions, !.body = src.body,
                                !.body_file = src.body_file], src)
  /\ UNCHANGED <<command, api_key, api_base, response, payload>>

ResearchCheck ==
  /\ pc = "dispatch"
  /\ command = "research check"
  /\ \E task_id \in Options(FlagStrings) :
       /\ args' = [NoArgs EXCEPT !.task_id = task_id]
       /\ IF ~task_id.some THEN Fail("task_id missing")
          ELSE exa_get("/research/v0/tasks/" \o ToStr(task_id.v))
  /\ UNCHANGED <<command, api_key, api_base, fs, reads, loaded, response, payload>>

(***************************************************************************)
(* The end of exa_post and exa_get: send() fails, or a response arrives    *)
(* and parse_response reads it.  The request leaves the wire when it is    *)
(* answered or lost; the arm's arguments are recorded until then.          *)
(***************************************************************************)
SendFails ==
  /\ pc = "awaiting"
  /\ stderr' = Append(stderr, "error: exa request")
  /\ exit' = "failure"
  /\ pc' = "exited"
  /\ inflight' = NoRequest
  /\ args' = NoArgs
  /\ loaded' = NotLoaded
  /\ UNCHANGED <<command, api_key, api_base, fs, reads, response, calls, payload, stdout>>

Respond ==
  /\ pc = "awaiting"
  /\ \E status \in Statuses, text \in Options(ResponseTexts) :
       response' = [status |-> status, text |-> text]
  /\ pc' = "responded"
  /\ inflight' = NoRequest
  /\ args' = NoArgs
  /\ loaded' = NotLoaded
  /\ UNCHANGED <<command, api_key, api_base, fs, reads, calls, payload, stdout, stderr,
                 exit>>

ParseResponse ==
  /\ pc = "responded"
  /\ \E r \in {parse_response(response)} :
        IF r.ok
        THEN /\ payload' = r.val
             /\ pc' = "payload"
             /\ UNCHANGED <<stderr, exit>>
        ELSE /\ stderr' = Append(stderr, "error: " \o r.err)
             /\ exit' = "failure"
             /\ pc' = "exited"
             /\ UNCHANGED payload
  /\ UNCHANGED <<command, api_key, api_base, args, fs, reads, loaded, inflight, response,
                 calls, stdout>>

(***************************************************************************)
(* run(), lines 258-264: the payload is printed.                           *)
(***************************************************************************)
PrintPayload ==
  /\ pc = "payload"
  /\ \E pretty \in BOOLEAN :
       LET output == IF pretty THEN SerializePretty(payload, 0) ELSE Serialize(payload)
       IN stdout' = Append(stdout, ToStr(output))
  /\ exit' = "success"
  /\ pc' = "exited"
  /\ UNCHANGED <<command, api_key, api_base, args, fs, reads, loaded, inflight, response,
                 calls, payload, stderr>>

Next ==
  \/ HandleMcp
  \/ Setup
  \/ Search
  \/ Contents
  \/ FindSimilar
  \/ Answer
  \/ Context
  \/ ResearchStart
  \/ ResearchCheck
  \/ SendFails
  \/ Respond
  \/ ParseResponse
  \/ PrintPayload

Spec == Init /\ [][Next]_vars

(***************************************************************************)
(* Vocabulary of the properties.  These definitions say what the program   *)
(* should compute without using the operators that model how it does.      *)
(***************************************************************************)
McpCommands == {"mcp url", "mcp tools"}
StringCommands == {"search", "find-similar", "answer", "context", "research start"}
PostCommands == StringCommands \cup {"contents"}

RequiredKey(cmd) ==
  CASE cmd \in {"search", "answer", "context"} -> QUERY
    [] cmd = "find-similar" -> URL
    [] cmd = "research start" -> INSTRUCTIONS

FieldName(cmd) ==
  CASE cmd \in {"search", "answer", "context"} -> "query"
    [] cmd = "find-similar" -> "url"
    [] cmd = "research start" -> "instructions"

\* the flag that supplies the required field
FlagOf(cmd) ==
  CASE cmd \in {"search", "answer", "context"} -> args.query
    [] cmd = "find-similar" -> args.url
    [] cmd = "research start" -> args.instructions

\* empty, or made of the characters of set only
OnlyOf(cs, set) == \A i \in 1..Len(cs) : cs[i] \in set
Blank(cs) == OnlyOf(cs, {" ", "\t", "\n", "\r"})
NonBlank(cs) == ~Blank(cs)

\* cs without its longest prefix and suffix made of the characters of set
Strip(cs, set) ==
  IF OnlyOf(cs, set) THEN <<>>
  ELSE LET keep == {i \in 1..Len(cs) : cs[i] \notin set}
           lo == CHOOSE i \in keep : \A j \in keep : i <= j
           hi == CHOOSE i \in keep : \A j \in keep : j <= i
       IN SubSeq(cs, lo, hi)

\* the non-blank items, each stripped of whitespace, in their order
Reduced(items) ==
  LET kept == SelectSeq(items, NonBlank)
  IN [i \in 1..Len(kept) |-> StrV(Strip(kept[i], {" ", "\t", "\n", "\r"}))]

\* load_body has been called, and the arm's request is not answered yet
LoadCalled == loaded.ok \/ loaded.err # ""

\* the body on the wire
Sent == inflight.body.v.o

\* the required field is absent, no string or blank once the flag is merged
MergedInvalid ==
  LET flag == FlagOf(command)
      key == RequiredKey(command)
  IN IF flag.some THEN Blank(flag.v)
     ELSE \/ key \notin DOMAIN loaded.map
          \/ loaded.map[key].t # "string"
          \/ Blank(loaded.map[key].s)

\* neither flag nor body supplies urls or ids
HasList(key, items) == Reduced(items) # <<>> \/ key \in DOMAIN loaded.map

Is2xx(status) == status \in 200..299

\* the process has failed with this message and printed nothing else
FailedWith(msg) ==
  /\ pc = "exited"
  /\ exit = "failure"
  /\ stderr = <<"error: " \o msg>>
  /\ stdout = <<>>

(***************************************************************************)
(* C1.  search, find-similar, answer, context, research start: when the    *)
(* required field is absent, no string or blank after the merge, the run   *)
(* fails with "missing <field>" and sends nothing; when the flag gives a   *)
(* non-blank string, the request is sent and carries the flag's value;     *)
(* every POST sent has the required field as a non-blank string.           *)
(***************************************************************************)
C1_RequiredStringField ==
  command \in StringCommands =>
    LET flag == FlagOf(command)
        key == RequiredKey(command)
    IN /\ loaded.ok /\ MergedInvalid =>
            /\ FailedWith("missing " \o FieldName(command))
            /\ calls = 0
            /\ inflight = NoRequest
       /\ loaded.ok /\ flag.some /\ NonBlank(flag.v) =>
            /\ pc = "awaiting"
            /\ inflight.method = "POST"
            /\ key \in DOMAIN Sent
            /\ Sent[key] = StrV(flag.v)
       /\ inflight.method = "POST" =>
            /\ inflight.body.some
            /\ inflight.body.v.t = "object"
            /\ key \in DOMAIN Sent
            /\ Sent[key].t = "string"
            /\ NonBlank(Sent[key].s)

\* a search is sent whose flag replaced the query of the loaded body
C1_Witness ==
  /\ command = "search"
  /\ pc = "awaiting"
  /\ args.query = Some(<<" ", "a">>)
  /\ QUERY \in DOMAIN loaded.map
  /\ loaded.map[QUERY] = StrV(<<"b", " ">>)

(***************************************************************************)
(* C2.  contents: each of --urls and --ids is reduced to its trimmed,      *)
(* non-empty items in order; a list reduced to nothing leaves the body's   *)
(* key as it was, any other list replaces it; with neither key after the   *)
(* merge the run fails with "missing one of: urls, ids" and sends nothing. *)
(***************************************************************************)
C2_ContentsLists ==
  command = "contents" /\ loaded.ok =>
    IF ~HasList(URLS, args.urls) /\ ~HasList(IDS, args.ids)
    THEN /\ FailedWith("missing one of: urls, ids")
         /\ calls = 0
         /\ inflight = NoRequest
    ELSE /\ pc = "awaiting"
         /\ inflight.method = "POST"
         /\ \A k \in {URLS, IDS} :
              LET items == IF k = URLS THEN args.urls ELSE args.ids
              IN /\ k \in DOMAIN Sent <=> HasList(k, items)
                 /\ HasList(k, items) =>
                      Sent[k] = IF Reduced(items) # <<>> THEN ArrV(Reduced(items))
                                ELSE loaded.map[k]

\* 'a', ' ', ' b ' replace the urls of the loaded body by ["a", "b"]
C2_Witness ==
  /\ command = "contents"
  /\ pc = "awaiting"
  /\ args.urls = << <<"a">>, <<" ">>, <<" ", "b", " ">> >>
  /\ args.ids = << <<" ">> >>
  /\ URLS \in DOMAIN loaded.map
  /\ Sent = [k \in {URLS} |-> ArrV(<<StrV(<<"a">>), StrV(<<"b">>)>>)]

(***************************************************************************)
(* C3.  Every request of answer carries "stream": false, whatever the      *)
(* loaded body said.                                                       *)
(***************************************************************************)
C3_AnswerStreamFalse ==
  command = "answer" /\ inflight.method # "" =>
    /\ inflight.method = "POST"
    /\ STREAM \in DOMAIN Sent
    /\ Sent[STREAM] = BoolV(FALSE)

\* an answer is sent whose loaded body had "stream": true
C3_Witness ==
  /\ command = "answer"
  /\ pc = "awaiting"
  /\ STREAM \in DOMAIN loaded.map
  /\ loaded.map[STREAM] = BoolV(TRUE)

(***************************************************************************)
(* C4.  load_body: both sources fail with "use only one of --body or       *)
(* --body-file" and the file is not read; no source gives the empty        *)
(* mapping; otherwise an object text gives its mapping, null the empty     *)
(* mapping, another JSON value "--body must be a JSON object", a text that *)
(* is no JSON a parse error, an unreadable file an error naming its path.  *)
(***************************************************************************)
NullTexts == {<<"n", "u", "l", "l">>, <<" ", "n", "u", "l", "l", "\n">>}

C4_LoadBody ==
  LoadCalled =>
    IF args.body.some /\ args.body_file.some
    THEN /\ ~loaded.ok
         /\ loaded.err = "use only one of --body or --body-file"
         /\ reads = 0
    ELSE IF ~args.body.some /\ ~args.body_file.some
    THEN /\ loaded.ok
         /\ loaded.map = <<>>
         /\ reads = 0
    ELSE IF args.body_file.some /\ ~fs.some
    THEN /\ ~loaded.ok
         /\ loaded.err = "read body file b.json"
    ELSE LET text == IF args.body.some THEN args.body.v ELSE fs.v
         IN /\ reads = IF args.body.some THEN 0 ELSE 1
            /\ IF text \in MalformedTexts
               THEN ~loaded.ok /\ loaded.err = "parse body json"
               ELSE IF text \in NullTexts
               THEN loaded.ok /\ loaded.map = <<>>
               ELSE IF text \in NonObjectTexts
               THEN ~loaded.ok /\ loaded.err = "--body must be a JSON object"
               ELSE /\ loaded.ok
                    /\ DOMAIN loaded.map \subseteq BodyKeys(command)
                    /\ \A k \in DOMAIN loaded.map : loaded.map[k] \in BodyValues(k)
                    /\ Serialize(ObjV(loaded.map)) = text

\* both sources are given, the file is readable, and it has not been read
C4_Witness ==
  /\ args.body.some
  /\ args.body_file.some
  /\ fs.some
  /\ ~loaded.ok
  /\ loaded.err # ""
  /\ reads = 0

(***************************************************************************)
(* C5.  A response whose text was read: the payload is the value the text  *)
(* denotes when it is JSON and {"raw": text} when it is not; with a 2xx    *)
(* status the call returns that payload, with any other status it fails    *)
(* with an error carrying the status and that payload.                     *)
(***************************************************************************)
ExpectedPayload(text) ==
  IF text \in InvalidResponseTexts THEN ObjV([k \in {RAW} |-> StrV(text)])
  ELSE CHOOSE v \in ResponseValues : text \in {Serialize(v), SerializePretty(v, 0)}

C5_ResponseOutcome ==
  response.text.some /\ pc \in {"payload", "exited"} =>
    IF Is2xx(response.status)
    THEN /\ payload = ExpectedPayload(response.text.v)
         /\ exit # "failure"
         /\ stderr = <<>>
    ELSE FailedWith("exa api failed status=" \o StatusDisplay(response.status)
                    \o " body=" \o ToStr(Serialize(ExpectedPayload(response.text.v))))

\* a 404 whose body is no JSON has failed the call
C5_Witness ==
  /\ response = [status |-> 404, text |-> Some(<<"o", "o", "p", "s">>)]
  /\ stderr = <<"error: exa api failed status=404 Not Found body={\"raw\":\"oops\"}">>

(***************************************************************************)
(* C6.  mcp url with a --tools value other than "all": the value is        *)
(* trimmed of whitespace, then of commas at both ends, and printed after   *)
(* the base and "?tools="; a value made of commas and whitespace only      *)
(* fails with "tools list is empty" and prints no URL.                     *)
(***************************************************************************)
C6_CustomToolList ==
  command = "mcp url" /\ pc = "exited" /\ args.tools.some
    /\ args.tools.v # <<"a", "l", "l">> =>
    IF OnlyOf(args.tools.v, {",", " ", "\t", "\n", "\r"})
    THEN FailedWith("tools list is empty")
    ELSE /\ exit = "success"
         /\ stderr = <<>>
         /\ stdout = <<"https://mcp.exa.ai/mcp?tools="
                       \o ToStr(Strip(Strip(args.tools.v, {" ", "\t", "\n", "\r"}), {","}))>>

(***************************************************************************)
(* C7.  mcp url without --tools prints the base address alone; with        *)
(* exactly "all" it prints the base, "?tools=" and the nine tool names     *)
(* joined by commas in their declared order; mcp tools prints the nine     *)
(* names, one per line, in that order.                                     *)
(***************************************************************************)
AllToolsUrl ==
  "https://mcp.exa.ai/mcp?tools=web_search_exa,web_search_advanced_exa,get_code_context_exa,deep_search_exa,crawling_exa,company_research_exa,people_search_exa,deep_researcher_start,deep_researcher_check"

C7_McpDiscovery ==
  pc = "exited" /\ command \in McpCommands =>
    /\ command = "mcp url" /\ ~args.tools.some =>
         stdout = <<"https://mcp.exa.ai/mcp">> /\ exit = "success"
    /\ command = "mcp url" /\ args.tools = Some(<<"a", "l", "l">>) =>
         stdout = <<AllToolsUrl>> /\ exit = "success"
    /\ command = "mcp url" /\ args.tools.some /\ args.tools.v # <<"a", "l", "l">> =>
         stdout # <<AllToolsUrl>>
    /\ command = "mcp tools" =>
         /\ stdout = << "web_search_exa", "web_search_advanced_exa", "get_code_context_exa",
                        "deep_search_exa", "crawling_exa", "company_research_exa",
                        "people_search_exa", "deep_researcher_start",
                        "deep_researcher_check" >>
         /\ exit = "success"

\* mcp url --tools all has printed its URL
C7_Witness ==
  /\ command = "mcp url"
  /\ pc = "exited"
  /\ args.tools = Some(<<"a", "l", "l">>)
  /\ stdout = <<AllToolsUrl>>

(***************************************************************************)
(* C8.  A run issues at most one HTTP call: one once an API subcommand's   *)
(* key is resolved and its body is loaded and valid (or its task id is     *)
(* given), none for the mcp subcommands, without an API key, or when body  *)
(* loading or validation fails.                                            *)
(***************************************************************************)
C8_AtMostOneCall ==
  /\ calls \in {0, 1}
  /\ command \in McpCommands => calls = 0
  /\ ~api_key.some => calls = 0
  /\ LoadCalled /\ ~loaded.ok => calls = 0
  /\ command \in StringCommands /\ loaded.ok =>
       calls = IF MergedInvalid THEN 0 ELSE 1
  /\ command = "contents" /\ loaded.ok =>
       calls = IF HasList(URLS, args.urls) \/ HasList(IDS, args.ids) THEN 1 ELSE 0
  /\ command = "research check" /\ args.task_id.some => calls = 1
  /\ command = "research check" /\ FailedWith("task_id missing") => calls = 0
  /\ pc \in {"parsed", "dispatch"} => calls = 0
  /\ pc \in {"awaiting", "responded", "payload"} => calls = 1
  /\ calls = 1 /\ pc = "exited" => response # NoResponse \/ FailedWith("exa request")

\* a contents run has ended well after its one call
C8_Witness ==
  /\ command = "contents"
  /\ pc = "exited"
  /\ exit = "success"
  /\ calls = 1

(***************************************************************************)
(* C9.  An API subcommand prints its payload only after its one call has   *)
(* ended with a 2xx status, and then exits with success; in every other    *)
(* outcome it prints nothing to standard output, prints one error message  *)
(* and exits with failure.                                                 *)
(***************************************************************************)
C9_NoPartialSuccess ==
  command \notin McpCommands =>
    /\ exit = "running" <=> pc # "exited"
    /\ exit = "running" => stdout = <<>> /\ stderr = <<>>
    /\ exit = "success" =>
         /\ calls = 1
         /\ response.text.some
         /\ Is2xx(response.status)
         /\ stderr = <<>>
         /\ stdout \in {<<ToStr(Serialize(payload))>>, <<ToStr(SerializePretty(payload, 0))>>}
    /\ exit = "failure" =>
         /\ stdout = <<>>
         /\ Len(stderr) = 1
    /\ pc = "exited" /\ (calls = 0 \/ ~response.text.some \/ ~Is2xx(response.status)) =>
         exit = "failure"

\* a search has printed its payload
C9_Witness ==
  /\ command = "search"
  /\ exit = "success"
  /\ response.status = 299
  /\ stdout = <<"{\"raw\":\"ok\"}">>

(***************************************************************************)
(* C10.  The merge changes the overlay keys only: every other key of the   *)
(* loaded body is sent with its value, and nothing is sent beyond the      *)
(* loaded body's keys, the overlay keys supplied and answer's "stream".    *)
(***************************************************************************)
OverlayKeys(cmd) ==
  CASE cmd = "contents" -> {URLS, IDS}
    [] cmd = "answer" -> {QUERY, STREAM}
    [] OTHER -> {RequiredKey(cmd)}

\* the overlay keys the flags supply
Supplied ==
  IF command = "contents"
  THEN {k \in {URLS, IDS} : \E i \in DOMAIN (IF k = URLS THEN args.urls ELSE args.ids) :
                              NonBlank((IF k = URLS THEN args.urls ELSE args.ids)[i])}
  ELSE IF FlagOf(command).some THEN {RequiredKey(command)} ELSE {}

C10_MergeFrame ==
  command \in PostCommands /\ pc = "awaiting" =>
    /\ \A k \in DOMAIN loaded.map \ OverlayKeys(command) :
         k \in DOMAIN Sent /\ Sent[k] = loaded.map[k]
    /\ DOMAIN Sent \subseteq
         DOMAIN loaded.map \cup Supplied
           \cup (IF command = "answer" THEN {STREAM} ELSE {})

\* a search is sent whose loaded body had two keys besides the query
C10_Witness ==
  /\ command = "search"
  /\ pc = "awaiting"
  /\ args.query.some
  /\ DOMAIN loaded.map = {QUERY, STREAM, NUM_RESULTS}

====
